---- MODULE Spec2Model ----
(***************************************************************************)
(* State-machine model of cycamore::Reactor (src/src/reactor.cc): the      *)
(* three fuel buffers core / fresh / spent, the assembly tracker           *)
(* res_indexes, the cycle state (cycle_step, discharged) and the handlers  *)
(* the simulation kernel calls once per timestep, in this order:           *)
(*   Tick, GetMatlRequests, GetMatlBids, GetMatlTrades, AcceptMatlTrades,  *)
(*   Tock.                                                                 *)
(* Vector indexes are 0-based in the source and are kept 0-based in        *)
(* res_indexes; sequences are 1-based, so path i is element i + 1.         *)
(***************************************************************************)
EXTENDS Integers, Sequences, FiniteSets, TLC

\* ---------------------------------------------------------------- bounds
MaxCore == 2
MaxSpent == 2
MaxFresh == 1
MaxCycle == 2
MaxRefuel == 1
MaxTime == 4
MaxMats == 4
AssemSize == 10
PowerCap == 5

VARIABLES
  \* configuration (read once)
  n_assem_batch, assem_size, n_assem_core, n_assem_spent, n_assem_fresh,
  cycle_time, refuel_time, power_cap,
  fuel_incommods, fuel_outcommods, fuel_inrecipes, fuel_outrecipes, fuel_prefs,
  pref_change_times, pref_change_commods, pref_change_values,
  recipe_change_times, recipe_change_commods, recipe_change_in,
  recipe_change_out,
  \* facility state
  cycle_step, discharged, core, fresh, spent, res_indexes,
  \* simulation context and the collaborators' side of the interfaces
  phase,      \* the handler the kernel calls next
  time,       \* context()->time()
  next_id,    \* the next unused Resource::obj_id()
  mats,       \* obj_id -> [qty, comp] of every material created so far
  ports,      \* request portfolios returned by the last GetMatlRequests
  bidports,   \* bid portfolios returned by the last GetMatlBids
  responses,  \* materials handed out by the last GetMatlTrades
  events,     \* ReactorEvents rows recorded by the last handler call
  power,      \* POWER time series values recorded by the last handler call
  err,        \* the exception that left the last handler, "" if none
  \* history
  delivered,  \* obj_ids handed out by GetMatlTrades so far
  failed_discharge, \* a Discharge failed and none has succeeded since
  called,     \* the handler called last
  pre,        \* the facility state when that handler was called
  tock_reset, \* <<the Tock before the last reset the cycle, the last did>>
  ever_full,  \* the core has held n_assem_core batches at some time
  arg,        \* the argument the kernel passed to that handler, <<>> if none
  ret,        \* the value the last direct call of a lookup returned
  transmuted, \* obj_id -> how often Material::Transmute was called on it
  cycle_log,  \* the CYCLE_START, TRANSMUTE and CYCLE_END rows recorded since
              \* (and with) the last CYCLE_START, or since the start
  since_start \* the Tocks since the one that recorded the last CYCLE_START
              \* (counted up to MaxCycle + MaxRefuel), -1 before the first

cfgvars == <<n_assem_batch, assem_size, n_assem_core, n_assem_spent,
             n_assem_fresh, cycle_time, refuel_time, power_cap,
             fuel_incommods, fuel_outcommods,
             pref_change_times, pref_change_commods, pref_change_values,
             recipe_change_times, recipe_change_commods, recipe_change_in,
             recipe_change_out>>

pathvars == <<fuel_inrecipes, fuel_outrecipes, fuel_prefs>>

bufvars == <<core, fresh, spent, res_indexes>>

cyclevars == <<cycle_step, discharged>>

vars == <<cfgvars, pathvars, bufvars, cyclevars, phase, time, next_id, mats,
          ports, bidports, responses, events, power, err, delivered,
          failed_discharge, called, pre, tock_reset, ever_full, arg, ret,
          transmuted, cycle_log, since_start>>

\* the handler name and the state it started from, kept for the properties
Snapshot == [core |-> core, fresh |-> fresh, spent |-> spent,
             res_indexes |-> res_indexes, cycle_step |-> cycle_step,
             discharged |-> discharged, mats |-> mats,
             failed_discharge |-> failed_discharge, next_id |-> next_id,
             transmuted |-> transmuted, cycle_log |-> cycle_log,
             since_start |-> since_start]

\* the rows of the ReactorEvents table that mark the cycle, as Record appends
\* them: evs from position k onwards, after log
RECURSIVE LogCycle(_, _, _)
LogCycle(log, evs, k) ==
  IF k > Len(evs) THEN log
  ELSE LogCycle(IF evs[k].name = "CYCLE_START" THEN <<"CYCLE_START">>
                ELSE IF evs[k].name \in {"TRANSMUTE", "CYCLE_END"}
                THEN Append(log, evs[k].name)
                ELSE log,
                evs, k + 1)

Called(name) ==
  /\ called' = name
  /\ pre' = Snapshot
  /\ ever_full' = (ever_full \/ Len(core') = n_assem_core)
  /\ cycle_log' = LogCycle(cycle_log, events', 1)
  /\ since_start' =
       IF name # "Tock" THEN since_start
       ELSE IF \E i \in 1..Len(events') : events'[i].name = "CYCLE_START"
       THEN 0
       ELSE IF since_start < 0 \/ since_start >= MaxCycle + MaxRefuel
       THEN since_start
       ELSE since_start + 1
  /\ ret' = ""

\* --------------------------------------------------------------- helpers
Min(a, b) == IF a < b THEN a ELSE b

\* operator<< of an int into a stringstream (the counts are single digits)
ToStr(n) ==
  IF n \in 0..9
  THEN <<"0", "1", "2", "3", "4", "5", "6", "7", "8", "9">>[n + 1]
  ELSE "many"

Event(name, val) == [name |-> name, val |-> val]

AssemVal(n) == <<ToStr(n), " assemblies">>

\* std::map<std::string, ...> iterates its keys in this (lexicographic) order
CommodOrder == <<"enrU", "mox", "out1", "out2">>

\* cyclus::toolkit::ResBuf as the reactor uses it: Push appends, PopN takes
\* the n oldest items and throws ValueError when n exceeds count()
Count(buf) == Len(buf)

PopNThrows(buf, n) == n > Len(buf) \/ n < 0

PopN(buf, n) == [popped |-> SubSeq(buf, 1, n),
                 rest |-> SubSeq(buf, n + 1, Len(buf))]

Push(buf, ms) == buf \o ms

\* std::map<int,int>::operator[]: a missing key is inserted with value 0
MapGet(ri, id) == IF id \in DOMAIN ri THEN ri[id] ELSE 0

MapTouch(ri, id) ==
  [x \in (DOMAIN ri) \cup {id} |-> IF x \in DOMAIN ri THEN ri[x] ELSE 0]

MapErase(ri, id) == [x \in (DOMAIN ri) \ {id} |-> ri[x]]

\* the four lookups share one shape: index through res_indexes, KeyError
\* when the index is past the end of the table
Lookup(table, ri, id) ==
  LET i == MapGet(ri, id)
  IN  [throws |-> i >= Len(table),
       val |-> IF i >= 0 /\ i < Len(table) THEN table[i + 1] ELSE "",
       res_indexes |-> MapTouch(ri, id)]

fuel_incommod(ri, id) == Lookup(fuel_incommods, ri, id)

fuel_outcommod(ri, id) == Lookup(fuel_outcommods, ri, id)

fuel_inrecipe(ri, id) == Lookup(fuel_inrecipes, ri, id)

fuel_outrecipe(ri, id) == Lookup(fuel_outrecipes, ri, id)

\* first j (0-based) with table[j] = x, or -1
RECURSIVE FindFrom(_, _, _)
FindFrom(table, x, j) ==
  IF j >= Len(table) THEN -1
  ELSE IF table[j + 1] = x THEN j
  ELSE FindFrom(table, x, j + 1)

Find(table, x) == FindFrom(table, x, 0)

\* ------------------------------------------------- configurations drawn
\* fuel paths (the parallel fuel_* arrays); P3 has two paths that share an
\* output commodity, P4 two paths that share an input commodity
P1 == [inc |-> <<"enrU">>, outc |-> <<"out1">>, inr |-> <<"rin1">>,
       outr |-> <<"rout1">>, prefs |-> <<>>]

P2 == [inc |-> <<"enrU", "mox">>, outc |-> <<"out1", "out2">>,
       inr |-> <<"rin1", "rin2">>, outr |-> <<"rout1", "rout2">>,
       prefs |-> <<1, 2>>]

P3 == [inc |-> <<"enrU", "mox">>, outc |-> <<"out1", "out1">>,
       inr |-> <<"rin1", "rin2">>, outr |-> <<"rout1", "rout2">>,
       prefs |-> <<1, 2>>]

P4 == [inc |-> <<"enrU", "enrU">>, outc |-> <<"out1", "out2">>,
       inr |-> <<"rin1", "rin2">>, outr |-> <<"rout1", "rout2">>,
       prefs |-> <<1, 2>>]

\* override schedules (the parallel *_change_* arrays); S2 to S6 each have
\* one table whose length differs from its change-time table
S0 == [pt |-> <<>>, pc |-> <<>>, pv |-> <<>>,
       rt |-> <<>>, rc |-> <<>>, rin |-> <<>>, rout |-> <<>>]

S1 == [pt |-> <<1>>, pc |-> <<"enrU">>, pv |-> <<3>>,
       rt |-> <<1>>, rc |-> <<"enrU">>, rin |-> <<"rin1b">>,
       rout |-> <<"rout1b">>]

S2 == [pt |-> <<1>>, pc |-> <<>>, pv |-> <<3>>,
       rt |-> <<>>, rc |-> <<>>, rin |-> <<>>, rout |-> <<>>]

S3 == [pt |-> <<>>, pc |-> <<>>, pv |-> <<>>,
       rt |-> <<1>>, rc |-> <<"enrU">>, rin |-> <<"rin1b">>, rout |-> <<>>]

S4 == [pt |-> <<>>, pc |-> <<>>, pv |-> <<>>,
       rt |-> <<1>>, rc |-> <<>>, rin |-> <<"rin1b">>, rout |-> <<"rout1b">>]

S5 == [pt |-> <<>>, pc |-> <<>>, pv |-> <<>>,
       rt |-> <<1>>, rc |-> <<"enrU">>, rin |-> <<>>, rout |-> <<"rout1b">>]

S6 == [pt |-> <<1>>, pc |-> <<"enrU">>, pv |-> <<>>,
       rt |-> <<>>, rc |-> <<>>, rin |-> <<>>, rout |-> <<>>]

InputFiles == {<<P1, S0>>, <<P2, S1>>, <<P3, S0>>, <<P4, S0>>, <<P1, S2>>,
               <<P2, S3>>, <<P2, S4>>, <<P3, S5>>, <<P4, S6>>}

\* ------------------------------------------------------------------ Init
\* Reactor::Reactor plus the configuration the input file supplies
Init ==
  /\ n_assem_core \in 1..MaxCore
  /\ n_assem_batch \in 1..n_assem_core
  /\ n_assem_spent \in 0..(MaxSpent + 1)
  /\ n_assem_fresh \in 0..MaxFresh
  /\ cycle_time \in 1..MaxCycle
  /\ refuel_time \in 0..MaxRefuel
  /\ assem_size = AssemSize
  /\ power_cap = PowerCap
  /\ \E f \in InputFiles :
     LET p == f[1]
         s == f[2]
     IN
       /\ fuel_incommods = p.inc
       /\ fuel_outcommods = p.outc
       /\ fuel_inrecipes = p.inr
       /\ fuel_outrecipes = p.outr
       /\ fuel_prefs = p.prefs
       /\ pref_change_times = s.pt
       /\ pref_change_commods = s.pc
       /\ pref_change_values = s.pv
       /\ recipe_change_times = s.rt
       /\ recipe_change_commods = s.rc
       /\ recipe_change_in = s.rin
       /\ recipe_change_out = s.rout
  \* the cycle timing is swept on the single-path reactor, with no spent
  \* storage or the largest, and a fresh reserve only without refuelling
  \* delay; the reactors with two fuel paths run the shortest cycle on
  \* whole-core batches and have room for one more spent batch
  /\ Len(fuel_incommods) > 1 =>
       /\ n_assem_batch = n_assem_core
       /\ cycle_time = 1
       /\ refuel_time = 0
       /\ n_assem_fresh = 0
       /\ n_assem_spent = MaxSpent + 1
  /\ Len(fuel_incommods) = 1 =>
       /\ n_assem_spent \in {0, MaxSpent}
       /\ n_assem_fresh > 0 => refuel_time = 0
  /\ cycle_step = 0
  /\ discharged = FALSE
  /\ core = <<>>
  /\ fresh = <<>>
  /\ spent = <<>>
  /\ res_indexes = <<>>
  /\ phase = "enter"
  /\ time = 0
  /\ next_id = 1
  /\ mats = <<>>
  /\ ports = <<>>
  /\ bidports = <<>>
  /\ responses = <<>>
  /\ events = <<>>
  /\ power = <<>>
  /\ err = ""
  /\ delivered = {}
  /\ failed_discharge = FALSE
  /\ called = ""
  /\ transmuted = <<>>
  /\ cycle_log = <<>>
  /\ since_start = -1
  /\ pre = Snapshot
  /\ tock_reset = <<FALSE, FALSE>>
  /\ ever_full = FALSE
  /\ arg = <<>>
  /\ ret = ""

\* ----------------------------------------------------------- EnterNotify
\* the consistency check without the two pref_change_* comparisons
EnterNotifyThrows_RecipeOnly ==
  \/ Len(recipe_change_commods) # Len(recipe_change_times)
  \/ Len(recipe_change_in) # Len(recipe_change_times)
  \/ Len(recipe_change_out) # Len(recipe_change_times)

EnterNotifyThrows ==
  \/ Len(recipe_change_commods) # Len(recipe_change_times)
  \/ Len(recipe_change_in) # Len(recipe_change_times)
  \/ Len(recipe_change_out) # Len(recipe_change_times)
  \/ Len(pref_change_commods) # Len(pref_change_times)
  \/ Len(pref_change_values) # Len(pref_change_times)

EnterNotify ==
  /\ phase = "enter"
  /\ UNCHANGED <<tock_reset, transmuted>>
  /\ fuel_prefs' = IF Len(fuel_prefs) = 0
                   THEN [i \in 1..Len(fuel_outcommods) |-> 0]
                   ELSE fuel_prefs
  /\ IF EnterNotifyThrows
     THEN err' = "ValueError" /\ phase' = "aborted"
     ELSE err' = "" /\ phase' = "tick"
  /\ UNCHANGED <<cfgvars, fuel_inrecipes, fuel_outrecipes, bufvars, cyclevars,
                 time, next_id, mats, ports, bidports, responses, events,
                 power, delivered, failed_discharge>>
  /\ arg' = <<>>
  /\ Called("EnterNotify")

\* ------------------------------------------- Transmute, Discharge, Load
\* The helpers of Tick work on a record s of the fields they read and write:
\* core, fresh, spent, res_indexes, mats, discharged, events, err, and the
\* history transmuted.

\* the loop of Transmute over old[i], from position k (1-based)
RECURSIVE TransmuteEach(_, _, _)
TransmuteEach(old, k, s) ==
  IF k > Len(old) THEN s
  ELSE LET r == fuel_outrecipe(s.res_indexes, old[k])
       IN  IF r.throws
           THEN [s EXCEPT !.res_indexes = r.res_indexes, !.err = "KeyError"]
           ELSE TransmuteEach(old, k + 1,
                  [s EXCEPT !.res_indexes = r.res_indexes,
                            !.mats = [@ EXCEPT ![old[k]].comp = r.val],
                            !.transmuted =
                               [x \in (DOMAIN @) \cup {old[k]} |->
                                  IF x = old[k] THEN MapGet(@, x) + 1
                                  ELSE @[x]]])

\* the two pushes swapped: "core.Push(tail); core.Push(old);"
Transmute_TailFirst(s) ==
  IF PopNThrows(s.core, n_assem_batch)
  THEN [s EXCEPT !.err = "ValueError"]
  ELSE LET p1 == PopN(s.core, n_assem_batch)
           old == p1.popped
           p2 == PopN(p1.rest, Count(p1.rest))
           tail == p2.popped
           c == Push(Push(p2.rest, tail), old)
           s1 == [s EXCEPT !.core = c,
                           !.events = Append(@, Event("TRANSMUTE",
                                                      AssemVal(Len(old))))]
       IN  TransmuteEach(old, 1, s1)

Transmute(s) ==
  IF PopNThrows(s.core, n_assem_batch)
  THEN [s EXCEPT !.err = "ValueError"]
  ELSE LET p1 == PopN(s.core, n_assem_batch)
           old == p1.popped
           p2 == PopN(p1.rest, Count(p1.rest))
           tail == p2.popped
           c == Push(Push(p2.rest, old), tail)
           s1 == [s EXCEPT !.core = c,
                           !.events = Append(@, Event("TRANSMUTE",
                                                      AssemVal(Len(old))))]
       IN  TransmuteEach(old, 1, s1)

\* Discharge without the room check of its first "if"
Discharge_NoRoomCheck(s) ==
  LET npop == Min(n_assem_batch, Count(s.core))
      p == PopN(s.core, npop)
  IN  [s EXCEPT !.events = Append(@, Event("DISCHARGE", AssemVal(npop))),
                !.spent = Push(@, p.popped),
                !.core = p.rest,
                !.discharged = TRUE]

\* Discharge taking the newest core batches instead of the oldest
Discharge_Newest(s) ==
  IF n_assem_spent - Count(s.spent) < n_assem_batch
  THEN [s EXCEPT !.events = Append(@, Event("DISCHARGE", <<"failed">>)),
                 !.discharged = FALSE]
  ELSE LET npop == Min(n_assem_batch, Count(s.core))
           keep == Count(s.core) - npop
       IN  [s EXCEPT !.events = Append(@, Event("DISCHARGE", AssemVal(npop))),
                     !.spent = Push(@, SubSeq(s.core, keep + 1, Count(s.core))),
                     !.core = SubSeq(s.core, 1, keep),
                     !.discharged = TRUE]

Discharge(s) ==
  IF n_assem_spent - Count(s.spent) < n_assem_batch
  THEN [s EXCEPT !.events = Append(@, Event("DISCHARGE", <<"failed">>)),
                 !.discharged = FALSE]
  ELSE LET npop == Min(n_assem_batch, Count(s.core))
           p == PopN(s.core, npop)
       IN  [s EXCEPT !.events = Append(@, Event("DISCHARGE", AssemVal(npop))),
                     !.spent = Push(@, p.popped),
                     !.core = p.rest,
                     !.discharged = TRUE]

Load(s) ==
  LET n == Min(n_assem_core - Count(s.core), Count(s.fresh))
  IN  IF n = 0 THEN s
      ELSE LET p == PopN(s.fresh, n)
           IN  [s EXCEPT !.events = Append(@, Event("LOAD", AssemVal(n))),
                         !.core = Push(@, p.popped),
                         !.fresh = p.rest]

\* ------------------------------------------------------------------ Tick
\* "update preferences": entries i = k.. of the schedule, applied in order
RECURSIVE UpdatePrefs(_, _)
UpdatePrefs(k, prefs) ==
  IF k > Len(pref_change_times) THEN prefs
  ELSE IF time # pref_change_times[k] THEN UpdatePrefs(k + 1, prefs)
  ELSE LET j == Find(fuel_incommods, pref_change_commods[k])
       IN  UpdatePrefs(k + 1,
             IF j >= 0 THEN [prefs EXCEPT ![j + 1] = pref_change_values[k]]
             ELSE prefs)

\* "update recipes": r is [inr, outr]
RECURSIVE UpdateRecipes(_, _)
UpdateRecipes(k, r) ==
  IF k > Len(recipe_change_times) THEN r
  ELSE IF time # recipe_change_times[k] THEN UpdateRecipes(k + 1, r)
  ELSE LET j == Find(fuel_incommods, recipe_change_commods[k])
       IN  UpdateRecipes(k + 1,
             IF j >= 0
             THEN [inr |-> [r.inr EXCEPT ![j + 1] = recipe_change_in[k]],
                   outr |-> [r.outr EXCEPT ![j + 1] = recipe_change_out[k]]]
             ELSE r)

\* the buffers, materials and events when Tick begins
TickStart ==
  [core |-> core, fresh |-> fresh, spent |-> spent,
   res_indexes |-> res_indexes, mats |-> mats,
   discharged |-> discharged, events |-> <<>>, err |-> "",
   transmuted |-> transmuted]

\* the lines of Tick one after the other, each on the result of the one
\* before it
TickTransmute(s0) ==
  IF cycle_step = cycle_time THEN Transmute(s0) ELSE s0

TickCycleEnd(t1) ==
  IF cycle_step = cycle_time /\ t1.err = ""
  THEN [t1 EXCEPT !.events = Append(@, Event("CYCLE_END", <<>>))]
  ELSE t1

TickDischarge(s1) ==
  IF s1.err = "" /\ cycle_step >= cycle_time /\ ~s1.discharged
  THEN Discharge(s1) ELSE s1

TickLoad(s2) ==
  IF s2.err = "" /\ cycle_step >= cycle_time THEN Load(s2) ELSE s2

\* the first two "if"s of Tick swapped: discharge, then transmute
TickBuffers_DischargeFirst ==
  CHOOSE s3 \in
    {TickLoad(s2) : s2 \in
      {TickCycleEnd(t2) : t2 \in
        {TickTransmute(s1) : s1 \in
          {TickDischarge(s0) : s0 \in {TickStart}}}}} : TRUE

TickBuffers ==
  CHOOSE s3 \in
    {TickLoad(s2) : s2 \in
      {TickDischarge(s1) : s1 \in
        {TickCycleEnd(t1) : t1 \in
          {TickTransmute(s0) : s0 \in {TickStart}}}}} : TRUE

\* Tick with the buffers s that Transmute, Discharge and Load leave
TickCall(s) ==
  /\ UNCHANGED tock_reset
  /\ LET r == UpdateRecipes(1, [inr |-> fuel_inrecipes,
                                outr |-> fuel_outrecipes])
     IN  /\ core' = s.core
         /\ fresh' = s.fresh
         /\ spent' = s.spent
         /\ res_indexes' = s.res_indexes
         /\ mats' = s.mats
         /\ discharged' = s.discharged
         /\ events' = s.events
         /\ err' = s.err
         /\ failed_discharge' =
              IF Event("DISCHARGE", <<"failed">>) \in
                   {s.events[i] : i \in 1..Len(s.events)}
              THEN TRUE
              ELSE IF s.discharged /\ ~discharged THEN FALSE
              ELSE failed_discharge
         /\ IF s.err = ""
            THEN /\ fuel_prefs' = UpdatePrefs(1, fuel_prefs)
                 /\ fuel_inrecipes' = r.inr
                 /\ fuel_outrecipes' = r.outr
                 /\ phase' = "requests"
            ELSE /\ UNCHANGED pathvars
                 /\ phase' = "aborted"
  /\ power' = <<>>
  /\ UNCHANGED <<cfgvars, cycle_step, time, next_id, ports, bidports,
                 responses, delivered>>
  /\ arg' = <<>>
  /\ Called("Tick")

Tick ==
  /\ phase = "tick"
  /\ time < MaxTime
  /\ \E s \in {TickBuffers} :
       /\ transmuted' = s.transmuted
       /\ TickCall(s)

\* ------------------------------------------------------- GetMatlRequests
n_assem_order ==
  n_assem_core - Count(core) + n_assem_fresh - Count(fresh)

\* one RequestPortfolio: a request per fuel_incommods[j], all of them mutual
\* a portfolio that requests the first input commodity only
RequestPortfolio_FirstOnly ==
  [reqs |-> [j \in 1..Min(1, Len(fuel_incommods)) |->
               [commod |-> fuel_incommods[j],
                pref |-> fuel_prefs[j],
                recipe |-> fuel_inrecipes[j],
                qty |-> assem_size,
                exclusive |-> TRUE]],
   mutual |-> 1..Min(1, Len(fuel_incommods))]

RequestPortfolio ==
  [reqs |-> [j \in 1..Len(fuel_incommods) |->
               [commod |-> fuel_incommods[j],
                pref |-> fuel_prefs[j],
                recipe |-> fuel_inrecipes[j],
                qty |-> assem_size,
                exclusive |-> TRUE]],
   mutual |-> 1..Len(fuel_incommods)]

\* the loop running once too often ("i <= n_assem_order")
RequestPorts_OneMore(n) ==
  IF n = 0 THEN <<>> ELSE [i \in 1..(n + 1) |-> RequestPortfolio]

\* no early return, and a loop that runs at least once
RequestPorts_AtZero(n) ==
  [i \in 1..(IF n <= 0 THEN 1 ELSE n) |-> RequestPortfolio]

RequestPorts(n) ==
  IF n = 0 THEN <<>> ELSE [i \in 1..n |-> RequestPortfolio]

GetMatlRequests ==
  /\ phase = "requests"
  /\ UNCHANGED <<tock_reset, transmuted>>
  /\ ports' = RequestPorts(n_assem_order)
  /\ phase' = "bids"
  /\ events' = <<>>
  /\ power' = <<>>
  /\ UNCHANGED <<cfgvars, pathvars, bufvars, cyclevars, time, next_id, mats,
                 bidports, responses, err, delivered, failed_discharge>>
  /\ arg' = <<>>
  /\ Called("GetMatlRequests")

\* ------------------------------------------- PeekSpent, PopSpent, PushSpent
Commods == {CommodOrder[i] : i \in 1..Len(CommodOrder)}

Reverse(q) == [i \in 1..Len(q) |-> q[Len(q) + 1 - i]]

\* the grouping loop "mapped[commod].push_back(mats[i])" from position k;
\* g is [mapped, res_indexes, err]
RECURSIVE GroupEach(_, _, _)
GroupEach(ms, k, g) ==
  IF k > Len(ms) THEN g
  ELSE LET c == fuel_outcommod(g.res_indexes, ms[k])
       IN  IF c.throws
           THEN [g EXCEPT !.res_indexes = c.res_indexes, !.err = "KeyError"]
           ELSE GroupEach(ms, k + 1,
                  [g EXCEPT !.res_indexes = c.res_indexes,
                            !.mapped = [@ EXCEPT ![c.val] =
                                          Append(@, ms[k])]])

NoGroups(ri) == [mapped |-> [c \in Commods |-> <<>>],
                 res_indexes |-> ri, err |-> ""]

\* the batches pushed back in the reverse of the order they were popped in
PeekSpent_PushReversed(sp, ri) ==
  LET p == PopN(sp, Count(sp))
      g == GroupEach(p.popped, 1, NoGroups(ri))
  IN  [mapped |-> g.mapped, res_indexes |-> g.res_indexes, err |-> g.err,
       spent |-> Push(p.rest, Reverse(p.popped))]

\* each group handed over newest first
PeekSpent_NewestFirst(sp, ri) ==
  LET p == PopN(sp, Count(sp))
      g == GroupEach(p.popped, 1, NoGroups(ri))
  IN  [mapped |-> [c \in Commods |-> Reverse(g.mapped[c])],
       res_indexes |-> g.res_indexes, err |-> g.err,
       spent |-> Push(p.rest, p.popped)]

\* result: [mapped, res_indexes, err, spent]
PeekSpent(sp, ri) ==
  LET p == PopN(sp, Count(sp))
      g == GroupEach(p.popped, 1, NoGroups(ri))
  IN  [mapped |-> g.mapped, res_indexes |-> g.res_indexes, err |-> g.err,
       spent |-> Push(p.rest, p.popped)]

PopSpent(sp, ri) ==
  CHOOSE r \in
    {[mapped |-> IF g.err = ""
                 THEN [c \in Commods |-> Reverse(g.mapped[c])]
                 ELSE g.mapped,
      res_indexes |-> g.res_indexes, err |-> g.err,
      spent |-> p.rest] :
       p \in {PopN(sp, Count(sp))},
       g \in {GroupEach(PopN(sp, Count(sp)).popped, 1, NoGroups(ri))}} : TRUE

\* pushes the groups back in the map's key order, from key position k
RECURSIVE PushSpentFrom(_, _, _)
PushSpentFrom(sp, leftover, k) ==
  IF k > Len(CommodOrder) THEN sp
  ELSE PushSpentFrom(Push(sp, Reverse(leftover[CommodOrder[k]])),
                     leftover, k + 1)

\* leftovers that are never pushed back
PushSpent_Dropped(sp, leftover) == sp

PushSpent(sp, leftover) == PushSpentFrom(sp, leftover, 1)

\* ----------------------------------------------------------- GetMatlBids
\* the bids for one request: mats[0..] until tot_bid >= the target quantity
\* the loop leaving only once the target is exceeded ("tot_bid > target")
RECURSIVE OfferFrom_Strict(_, _, _, _)
OfferFrom_Strict(ms, k, tot_bid, target) ==
  IF k > Len(ms) THEN <<>>
  ELSE LET tot == tot_bid + mats[ms[k]].qty
       IN  IF tot > target THEN <<ms[k]>>
           ELSE <<ms[k]>> \o OfferFrom_Strict(ms, k + 1, tot, target)

RECURSIVE OfferFrom(_, _, _, _)
OfferFrom(ms, k, tot_bid, target) ==
  IF k > Len(ms) THEN <<>>
  ELSE LET tot == tot_bid + mats[ms[k]].qty
       IN  IF tot >= target THEN <<ms[k]>>
           ELSE <<ms[k]>> \o OfferFrom(ms, k + 1, tot, target)

RECURSIVE BidsFrom(_, _, _)
BidsFrom(reqs, ms, j) ==
  IF j > Len(reqs) THEN <<>>
  ELSE LET offers == OfferFrom(ms, 1, 0, reqs[j])
       IN  [k \in 1..Len(offers) |->
              [req |-> j, offer |-> offers[k], exclusive |-> TRUE]]
           \o BidsFrom(reqs, ms, j + 1)

RECURSIVE TotQty(_, _)
TotQty(ms, k) ==
  IF k > Len(ms) THEN 0 ELSE mats[ms[k]].qty + TotQty(ms, k + 1)

\* the loop over fuel_outcommods from path i (1-based); b is
\* [ports, spent, res_indexes, err]
RECURSIVE BidLoop(_, _, _)
BidLoop(commod_requests, i, b) ==
  IF i > Len(fuel_outcommods) \/ b.err # "" THEN b
  ELSE LET commod == fuel_outcommods[i]
           reqs == commod_requests[commod]
       IN  IF Len(reqs) = 0 THEN BidLoop(commod_requests, i + 1, b)
           ELSE LET pk == PeekSpent(b.spent, b.res_indexes)
                    ms == pk.mapped[commod]
                    b1 == [b EXCEPT !.spent = pk.spent,
                                    !.res_indexes = pk.res_indexes,
                                    !.err = pk.err]
                IN  IF pk.err # "" THEN b1
                    ELSE IF Len(ms) = 0
                    THEN BidLoop(commod_requests, i + 1, b1)
                    ELSE BidLoop(commod_requests, i + 1,
                           [b1 EXCEPT !.ports = Append(@,
                              [commod |-> commod,
                               bids |-> BidsFrom(reqs, ms, 1),
                               cap |-> TotQty(ms, 1)])])

OutCommods == {fuel_outcommods[i] : i \in 1..Len(fuel_outcommods)}

\* the request lists the exchange passes for one commodity: none, one request
\* for a batch, or a request for two batches followed by one for a batch
ReqSeqs == {<<>>, <<AssemSize>>, <<2 * AssemSize, AssemSize>>}

GetMatlBids ==
  /\ phase = "bids"
  /\ UNCHANGED <<tock_reset, transmuted>>
  /\ \E cr \in [OutCommods -> ReqSeqs] :
       \E b \in {BidLoop(cr, 1, [ports |-> <<>>, spent |-> spent,
                                res_indexes |-> res_indexes, err |-> ""])} :
           /\ arg' = cr
           /\ bidports' = b.ports
           /\ spent' = b.spent
           /\ res_indexes' = b.res_indexes
           /\ err' = b.err
           /\ phase' = IF b.err = "" THEN "trades" ELSE "aborted"
  /\ events' = <<>>
  /\ power' = <<>>
  /\ UNCHANGED <<cfgvars, pathvars, core, fresh, cyclevars, time, next_id,
                 mats, ports, responses, delivered, failed_discharge>>
  /\ Called("GetMatlBids")

\* --------------------------------------------------------- GetMatlTrades
\* the loop over trades from position i; x is [mats, responses, res_indexes]
\* the loop without "res_indexes.erase(m->obj_id())"
RECURSIVE TradeLoop_NoErase(_, _, _)
TradeLoop_NoErase(trades, i, x) ==
  IF i > Len(trades) THEN x
  ELSE LET commod == trades[i]
           grp == x.mats[commod]
           m == grp[Len(grp)]
       IN  TradeLoop_NoErase(trades, i + 1,
             [mats |-> [x.mats EXCEPT ![commod] = SubSeq(grp, 1, Len(grp) - 1)],
              responses |-> Append(x.responses, m),
              res_indexes |-> x.res_indexes])

RECURSIVE TradeLoop(_, _, _)
TradeLoop(trades, i, x) ==
  IF i > Len(trades) THEN x
  ELSE LET commod == trades[i]
           grp == x.mats[commod]
           m == grp[Len(grp)]
       IN  TradeLoop(trades, i + 1,
             [mats |-> [x.mats EXCEPT ![commod] = SubSeq(grp, 1, Len(grp) - 1)],
              responses |-> Append(x.responses, m),
              res_indexes |-> MapErase(x.res_indexes, m)])

NumOf(q, c) == Cardinality({i \in 1..Len(q) : q[i] = c})

\* the commodity a spent batch is held under
OutCommodOf(id) == fuel_outcommod(res_indexes, id).val

\* the trades the exchange can award on the last bids: only commodities that
\* were bid on, and per commodity no more trades than spent batches (the bid
\* portfolio's capacity constraint)
Awardable(trades) ==
  \A c \in OutCommods :
    /\ NumOf(trades, c) <= NumOf([k \in 1..Len(spent) |->
                                    OutCommodOf(spent[k])], c)
    /\ NumOf(trades, c) > 0 =>
         \E k \in 1..Len(bidports) : bidports[k].commod = c

GetMatlTrades ==
  /\ phase = "trades"
  /\ UNCHANGED <<tock_reset, transmuted>>
  /\ \E trades \in UNION {[1..n -> OutCommods] : n \in 0..Len(spent)} :
       /\ Awardable(trades)
       /\ arg' = trades
       /\ \E ps \in {PopSpent(spent, res_indexes)} :
          \E x \in {TradeLoop(trades, 1,
                      [mats |-> ps.mapped, responses |-> <<>>,
                       res_indexes |-> ps.res_indexes])} :
              IF ps.err # ""
              THEN /\ spent' = ps.spent
                   /\ res_indexes' = ps.res_indexes
                   /\ responses' = <<>>
                   /\ err' = ps.err
                   /\ phase' = "aborted"
                   /\ UNCHANGED delivered
              ELSE /\ spent' = PushSpent(ps.spent, x.mats)
                   /\ res_indexes' = x.res_indexes
                   /\ responses' = x.responses
                   /\ err' = ""
                   /\ phase' = "accept"
                   /\ delivered' = delivered \cup
                        {x.responses[k] : k \in 1..Len(x.responses)}
  /\ bidports' = <<>>
  /\ events' = <<>>
  /\ power' = <<>>
  /\ UNCHANGED <<cfgvars, pathvars, core, fresh, cyclevars, time, next_id,
                 mats, ports, failed_discharge>>
  /\ Called("GetMatlTrades")

\* ------------------------------------------------------ AcceptMatlTrades
\* the loop without its "return": the last matching fuel path wins
index_res_Last(ri, id, incommod) ==
  LET match == {j \in 0..(Len(fuel_incommods) - 1) :
                  fuel_incommods[j + 1] = incommod}
  IN  IF match # {}
      THEN [throws |-> FALSE,
            res_indexes |-> [x \in (DOMAIN ri) \cup {id} |->
                               IF x = id
                               THEN CHOOSE j \in match :
                                      \A m \in match : m <= j
                               ELSE ri[x]]]
      ELSE [throws |-> TRUE, res_indexes |-> ri]

\* index_res: [throws, res_indexes]
index_res(ri, id, incommod) ==
  LET i == Find(fuel_incommods, incommod)
  IN  IF i >= 0
      THEN [throws |-> FALSE,
            res_indexes |-> [x \in (DOMAIN ri) \cup {id} |->
                               IF x = id THEN i ELSE ri[x]]]
      ELSE [throws |-> TRUE, res_indexes |-> ri]

\* the loop over responses from position k; the k-th material has obj_id
\* ids[k]; a is [core, fresh, res_indexes, err]
RECURSIVE AcceptLoop(_, _, _, _)
AcceptLoop(commods, ids, k, a) ==
  IF k > Len(commods) THEN a
  ELSE LET m == ids[k]
           ix == index_res(a.res_indexes, m, commods[k])
       IN  IF ix.throws THEN [a EXCEPT !.err = "ValueError"]
           ELSE AcceptLoop(commods, ids, k + 1,
                  IF Count(a.core) < n_assem_core
                  THEN [a EXCEPT !.res_indexes = ix.res_indexes,
                                 !.core = Push(@, <<m>>)]
                  ELSE [a EXCEPT !.res_indexes = ix.res_indexes,
                                 !.fresh = Push(@, <<m>>)])

\* the materials the exchange built for the awarded requests
NewMats(commods, ids) ==
  [id \in {ids[k] : k \in 1..Len(commods)} |->
     [qty |-> assem_size,
      comp |-> fuel_inrecipes[
                 Find(fuel_incommods,
                      commods[CHOOSE k \in 1..Len(commods) : ids[k] = id])
                 + 1]]]

\* the body of AcceptMatlTrades for n responses whose materials carry
\* the object ids "ids"
AcceptResponses(n, ids) ==
  /\ UNCHANGED tock_reset
  /\ \E commods \in [1..n -> {fuel_incommods[j] : j \in 1..Len(fuel_incommods)}] :
       LET nload == Min(Len(commods), n_assem_core - Count(core))
           a == AcceptLoop(commods, ids, 1,
                  [core |-> core, fresh |-> fresh,
                   res_indexes |-> res_indexes, err |-> ""])
           new == NewMats(commods, ids)
       IN  /\ arg' = commods
           /\ events' = IF nload > 0
                        THEN <<Event("LOAD", AssemVal(nload))>> ELSE <<>>
           /\ core' = a.core
           /\ fresh' = a.fresh
           /\ res_indexes' = a.res_indexes
           /\ err' = a.err
           /\ phase' = IF a.err = "" THEN "tock" ELSE "aborted"
           /\ mats' = [id \in (DOMAIN mats) \cup (DOMAIN new) |->
                         IF id \in DOMAIN new THEN new[id] ELSE mats[id]]
  /\ ports' = <<>>
  /\ responses' = <<>>
  /\ power' = <<>>
  /\ UNCHANGED <<cfgvars, pathvars, spent, cyclevars, time, bidports,
                 failed_discharge>>
  /\ Called("AcceptMatlTrades")

AcceptMatlTrades ==
  /\ phase = "accept"
  \* the suppliers hold MaxMats materials in all
  /\ \E n \in 0..Min(Len(ports), MaxMats + 1 - next_id) :
       /\ next_id' = next_id + n
       /\ UNCHANGED <<delivered, transmuted>>
       /\ AcceptResponses(n, [k \in 1..n |-> next_id + k - 1])

\* ------------------------------------------------------------------ Tock
\* cycle state after the first "if" of Tock
\* a reset that does not wait for a full core
TockResets_NoCoreCheck ==
  cycle_step >= cycle_time + refuel_time

\* a reset that does not wait for the refuelling time
TockResets_NoRefuelWait ==
  cycle_step >= cycle_time /\ Count(core) = n_assem_core

TockResets ==
  cycle_step >= cycle_time + refuel_time /\ Count(core) = n_assem_core

TockReset ==
  IF TockResets
  THEN [discharged |-> FALSE, cycle_step |-> 0]
  ELSE [discharged |-> discharged, cycle_step |-> cycle_step]

\* CYCLE_START decided on the cycle_step the call started with
TockStart_BeforeReset(cs) == cycle_step = 0 /\ Count(core) = n_assem_core

\* CYCLE_START recorded whenever the core is full
TockStart_AnyStep(cs) == Count(core) = n_assem_core

TockStart(cs) == cs = 0 /\ Count(core) = n_assem_core

\* the output decided on the cycle_step the call started with
TockPower_BeforeReset(cs) ==
  IF cycle_step >= 0 /\ cycle_step < cycle_time /\ Count(core) = n_assem_core
  THEN power_cap ELSE 0

TockPower(cs) ==
  IF cs >= 0 /\ cs < cycle_time /\ Count(core) = n_assem_core
  THEN power_cap ELSE 0

\* an unconditional cycle_step++
TockStep_Always(cs) == cs + 1

TockStep(cs) == IF cs > 0 \/ Count(core) = n_assem_core THEN cs + 1 ELSE cs

\* Tock, but for the kernel's clock
TockCall ==
  /\ phase = "tock"
  /\ tock_reset' = <<tock_reset[2], TockResets>>
  /\ UNCHANGED transmuted
  /\ LET r == TockReset
     IN  /\ discharged' = r.discharged
         /\ events' = IF TockStart(r.cycle_step)
                      THEN <<Event("CYCLE_START", <<>>)>> ELSE <<>>
         /\ power' = <<TockPower(r.cycle_step)>>
         /\ cycle_step' = TockStep(r.cycle_step)
  /\ phase' = "tick"
  /\ UNCHANGED <<cfgvars, pathvars, bufvars, next_id, mats, ports, bidports,
                 responses, err, delivered, failed_discharge>>
  /\ arg' = <<>>
  /\ Called("Tock")

Tock ==
  /\ time' = time + 1
  /\ TockCall

\* ------------------------------------------------------------------ Next
Next ==
  \/ EnterNotify
  \/ Tick
  \/ GetMatlRequests
  \/ GetMatlBids
  \/ GetMatlTrades
  \/ AcceptMatlTrades
  \/ Tock

Spec == Init /\ [][Next]_vars

\* ---------------------------------------------------- the lookups, alone
\* fuel_incommod / fuel_outcommod / fuel_inrecipe / fuel_outrecipe called
\* between two timesteps for any material: one resident in the facility, one
\* already traded away, or one the facility never held (obj_id next_id)
LookupNames ==
  {"fuel_incommod", "fuel_outcommod", "fuel_inrecipe", "fuel_outrecipe"}

LookupOf(fn, ri, id) ==
  CASE fn = "fuel_incommod" -> fuel_incommod(ri, id)
    [] fn = "fuel_outcommod" -> fuel_outcommod(ri, id)
    [] fn = "fuel_inrecipe" -> fuel_inrecipe(ri, id)
    [] fn = "fuel_outrecipe" -> fuel_outrecipe(ri, id)

LookupCall ==
  /\ phase = "tick"
  /\ \E fn \in LookupNames, id \in 1..next_id :
       LET r == LookupOf(fn, res_indexes, id)
       IN  /\ res_indexes' = r.res_indexes
           /\ err' = IF r.throws THEN "KeyError" ELSE ""
           /\ ret' = IF r.throws THEN "" ELSE r.val
           /\ called' = fn
           /\ arg' = id
  /\ pre' = Snapshot
  /\ phase' = "looked"
  /\ UNCHANGED <<cfgvars, pathvars, core, fresh, spent, cyclevars, time,
                 next_id, mats, ports, bidports, responses, events, power,
                 delivered, failed_discharge, tock_reset, ever_full,
                 transmuted, cycle_log, since_start>>

NextLookup ==
  \/ Next
  \/ LookupCall

SpecLookup == Init /\ [][NextLookup]_vars

\* ------------------------------------------------- unbounded operation
\* The reactor run without an end: the single-path input file with no
\* scheduled override, so that the facility reads the clock to no effect
\* and the clock is left where it is; the object id of a material that has
\* left the facility is given to a new material, and no count of the
\* transmutations is kept.
MaxWait == MaxCycle + MaxRefuel + 1

RECURSIVE Ascending(_)
Ascending(S) ==
  IF S = {} THEN <<>>
  ELSE LET m == CHOOSE x \in S : \A y \in S : x <= y
       IN  <<m>> \o Ascending(S \ {m})

\* object ids for n new materials
FreeIds(n) ==
  SubSeq(Ascending({i \in 1..(n_assem_core + n_assem_fresh + n_assem_spent) :
                      /\ \A k \in 1..Len(core) : core[k] # i
                      /\ \A k \in 1..Len(fresh) : fresh[k] # i
                      /\ \A k \in 1..Len(spent) : spent[k] # i}), 1, n)

InitLive ==
  /\ Init
  \* spent storage that can take a discharge, and no fresh reserve
  /\ n_assem_spent = MaxSpent
  /\ n_assem_fresh = 0
  /\ fuel_incommods = P1.inc
  /\ fuel_outcommods = P1.outc
  /\ pref_change_times = S0.pt
  /\ pref_change_commods = S0.pc
  /\ pref_change_values = S0.pv
  /\ recipe_change_times = S0.rt
  /\ recipe_change_commods = S0.rc
  /\ recipe_change_in = S0.rin
  /\ recipe_change_out = S0.rout

\* the exchange answers any number of the requests until cycle_step has
\* reached MaxWait, and all of them from then on
AcceptLive ==
  /\ phase = "accept"
  /\ \E n \in 0..Len(ports) :
       /\ cycle_step < MaxWait \/ n = Len(ports)
       /\ \E ids \in {FreeIds(n)} :
            LET new == {ids[k] : k \in 1..n}
            IN  /\ next_id' = IF n > 0 /\ ids[n] >= next_id
                              THEN ids[n] + 1 ELSE next_id
                /\ delivered' = delivered \ new
                /\ UNCHANGED transmuted
                /\ AcceptResponses(n, ids)

\* the exchange answers every request of the timestep
AcceptAll == AcceptLive /\ Len(arg') = Len(ports)

TickLive ==
  /\ phase = "tick"
  /\ \E s \in {TickBuffers} :
       /\ UNCHANGED transmuted
       /\ TickCall(s)

TockLive ==
  /\ UNCHANGED time
  /\ TockCall

NextLive ==
  \/ EnterNotify
  \/ TickLive
  \/ GetMatlRequests
  \/ GetMatlBids
  \/ GetMatlTrades
  \/ AcceptLive
  \/ TockLive

\* the kernel runs every timestep to its end, and the exchange answers
\* every request of a timestep again and again
SpecLive ==
  /\ InitLive
  /\ [][NextLive]_vars
  /\ WF_vars(NextLive)
  /\ SF_vars(AcceptAll)

\* ============================================================ properties
HasEvent(name) == \E i \in 1..Len(events) : events[i].name = name

EventsNamed(name) == SelectSeq(events, LAMBDA e : e.name = name)

\* the request generator's N, on the buffers the last handler started from
PreOrder ==
  (n_assem_core - Len(pre.core)) + (n_assem_fresh - Len(pre.fresh))

\* the condition of the reset, on the state the last handler started from
PreResetCond ==
  pre.cycle_step >= cycle_time + refuel_time /\ Len(pre.core) = n_assem_core

\* C1: in every reachable state core.count() <= n_assem_core and
\* spent.count() <= n_assem_spent.
C1_BufferCapacity ==
  Count(core) <= n_assem_core /\ Count(spent) <= n_assem_spent

\* a Tick that discharged into the last free spent slots and reloaded the core
C1_Witness ==
  /\ called = "Tick"
  /\ Len(spent) > Len(pre.spent)
  /\ Len(fresh) < Len(pre.fresh)
  /\ Count(spent) = n_assem_spent
  /\ Count(core) = n_assem_core

\* C2: every batch accepted and not yet delivered out is held by exactly one
\* of core, fresh, spent, exactly once; a delivered batch is held by none.
Held(id) == NumOf(core, id) + NumOf(fresh, id) + NumOf(spent, id)

C2_ExclusiveOwnership ==
  \A id \in 1..(next_id - 1) : Held(id) = IF id \in delivered THEN 0 ELSE 1

\* a delivery that handed a batch out and pushed a leftover back, with batches
\* in the core as well
C2_Witness ==
  /\ called = "GetMatlTrades"
  /\ Len(responses) > 0
  /\ Len(spent) > 0
  /\ Len(core) > 0

\* C3: after a trade acceptance (the exchange having awarded at most one
\* trade per request group of this timestep),
\* core.count() + fresh.count() <= n_assem_core + n_assem_fresh.
C3_AcceptWithinOrder ==
  called = "AcceptMatlTrades" =>
    Count(core) + Count(fresh) <= n_assem_core + n_assem_fresh

\* an acceptance that filled the last core slot and the last fresh slot
C3_Witness ==
  /\ called = "AcceptMatlTrades"
  /\ Len(core) > Len(pre.core)
  /\ Len(fresh) > Len(pre.fresh)
  /\ Count(core) + Count(fresh) = n_assem_core + n_assem_fresh

\* C4: when N > 0 the request generator returns exactly N portfolios, each
\* with one exclusive request per entry of fuel_incommods, for assem_size of
\* that entry's current in-recipe at its current preference, all of the
\* portfolio's requests being mutual.
C4_RequestGroups ==
  (called = "GetMatlRequests" /\ PreOrder > 0) =>
    /\ Len(ports) = PreOrder
    /\ \A i \in 1..Len(ports) :
         /\ Len(ports[i].reqs) = Len(fuel_incommods)
         /\ ports[i].mutual = 1..Len(ports[i].reqs)
         /\ \A j \in 1..Len(ports[i].reqs) :
              /\ ports[i].reqs[j].commod = fuel_incommods[j]
              /\ ports[i].reqs[j].qty = assem_size
              /\ ports[i].reqs[j].recipe = fuel_inrecipes[j]
              /\ ports[i].reqs[j].pref = fuel_prefs[j]
              /\ ports[i].reqs[j].exclusive

\* two missing slots, two input commodities, after the scheduled override of
\* the first one's recipe and preference
C4_Witness ==
  /\ called = "GetMatlRequests"
  /\ PreOrder = 2
  /\ Len(ports) = 2
  /\ Len(fuel_incommods) = 2
  /\ fuel_inrecipes[1] = "rin1b"
  /\ fuel_prefs[1] = 3

\* C5: the request generator returns no portfolio when N <= 0, and for every
\* N it leaves core, fresh, spent, res_indexes, cycle_step and discharged as
\* they were.
C5_RequestFrame ==
  called = "GetMatlRequests" =>
    /\ PreOrder <= 0 => ports = <<>>
    /\ core = pre.core
    /\ fresh = pre.fresh
    /\ spent = pre.spent
    /\ res_indexes = pre.res_indexes
    /\ cycle_step = pre.cycle_step
    /\ discharged = pre.discharged

\* a request round with every core and fresh slot taken
C5_Witness ==
  /\ called = "GetMatlRequests"
  /\ PreOrder = 0
  /\ Len(core) > 0
  /\ Len(fresh) > 0
  /\ ports = <<>>

\* C6: a Tick that attempts a discharge (cycle_step >= cycle_time, not yet
\* discharged): with fewer than n_assem_batch free spent slots, discharged
\* stays false, spent is unchanged, no batch leaves the core and the one
\* DISCHARGE event says "failed"; otherwise discharged becomes true, the
\* min(n_assem_batch, core.count()) oldest core batches are appended to
\* spent in their order, the others stay at the head of the core, and the one
\* DISCHARGE event carries that count.
DischargeAttempted ==
  /\ called = "Tick"
  /\ err = ""
  /\ pre.cycle_step >= cycle_time
  /\ ~pre.discharged

C6_Discharge ==
  DischargeAttempted =>
    IF n_assem_spent - Len(pre.spent) < n_assem_batch
    THEN /\ ~discharged
         /\ spent = pre.spent
         /\ Len(core) >= Len(pre.core)
         /\ SubSeq(core, 1, Len(pre.core)) = pre.core
         /\ EventsNamed("DISCHARGE") = <<Event("DISCHARGE", <<"failed">>)>>
    ELSE LET k == Min(n_assem_batch, Len(pre.core))
         IN  /\ discharged
             /\ spent = pre.spent \o SubSeq(pre.core, 1, k)
             /\ Len(core) >= Len(pre.core) - k
             /\ SubSeq(core, 1, Len(pre.core) - k) =
                  SubSeq(pre.core, k + 1, Len(pre.core))
             /\ EventsNamed("DISCHARGE") =
                  <<Event("DISCHARGE", AssemVal(k))>>

\* a discharge of one batch out of a core of two, onto a spent buffer that
\* already holds a batch
C6_Witness ==
  /\ DischargeAttempted
  /\ discharged
  /\ Len(pre.core) = 2
  /\ Len(pre.spent) = 1
  /\ Len(spent) = 2

\* C7: once a discharge has failed, every later pre-exchange phase attempts a
\* discharge until one succeeds.
C7_RetriedEveryTick ==
  (called = "Tick" /\ pre.failed_discharge) => HasEvent("DISCHARGE")

\* C8 as stated: the Tock that follows a resetting Tock is the one that
\* records CYCLE_START.
C8_StartOnFollowingTock ==
  (called = "Tock" /\ tock_reset[1]) => HasEvent("CYCLE_START")

\* C8 amended: a Tock that finds cycle_step >= cycle_time + refuel_time and a
\* full core sets discharged to false, records CYCLE_START itself and leaves
\* cycle_step at 1 (reset to 0, then incremented); the Tock that follows
\* records CYCLE_START only if it resets the cycle again.
C8_StartOnResettingTock ==
  called = "Tock" =>
    /\ PreResetCond =>
         /\ ~discharged
         /\ cycle_step = 1
         /\ EventsNamed("CYCLE_START") = <<Event("CYCLE_START", <<>>)>>
    /\ (tock_reset[1] /\ ~PreResetCond) => ~HasEvent("CYCLE_START")

\* the Tock that ends a refuelling: the batch was discharged, the core is full
\* again
C8_Witness ==
  /\ called = "Tock"
  /\ PreResetCond
  /\ pre.discharged
  /\ pre.cycle_step >= 2
  /\ HasEvent("CYCLE_START")

\* C9: only Tock changes cycle_step; a Tock leaves it below its successor (a
\* reset to 0) only if it found cycle_step >= cycle_time + refuel_time and a
\* full core; and discharged goes from true to false only in such a Tock.
C9_ResetOnlyAfterRefuel ==
  /\ called # "Tock" =>
       /\ cycle_step = pre.cycle_step
       /\ pre.discharged => discharged
  /\ called = "Tock" =>
       /\ (pre.cycle_step > 0 /\ cycle_step # pre.cycle_step + 1)
            => PreResetCond
       /\ (pre.discharged /\ ~discharged) => PreResetCond

\* a reset from a cycle_step of at least 2 that also clears discharged
C9_Witness ==
  /\ called = "Tock"
  /\ pre.cycle_step >= 2
  /\ cycle_step = 1
  /\ pre.discharged
  /\ ~discharged

\* C10: a Tock leaves cycle_step one above its value after the possible
\* reset, except that it stays 0 when that value is 0 and the core is not
\* full; so cycle_step is positive only once the core has been full.
C10_ClockStep ==
  /\ called = "Tock" =>
       LET r == IF PreResetCond THEN 0 ELSE pre.cycle_step
       IN  cycle_step = IF r = 0 /\ Len(pre.core) # n_assem_core
                        THEN 0 ELSE r + 1
  /\ cycle_step > 0 => ever_full

\* a second timestep ending with a partly filled core and the clock still at 0
C10_Witness ==
  /\ called = "Tock"
  /\ time >= 2
  /\ Len(core) > 0
  /\ Len(core) < n_assem_core
  /\ cycle_step = 0
  /\ ~ever_full

\* C11: every Tock records exactly one output value: power_cap if, after the
\* possible reset, the core is full and 0 <= cycle_step < cycle_time, and 0
\* otherwise (core not full, cycle end, refuelling).
C11_PowerOutput ==
  called = "Tock" =>
    LET r == IF PreResetCond THEN 0 ELSE pre.cycle_step
    IN  power = <<IF Len(pre.core) = n_assem_core /\ r >= 0 /\ r < cycle_time
                  THEN power_cap ELSE 0>>

\* a Tock that reset the cycle and so recorded the nominal capacity
C11_Witness ==
  /\ called = "Tock"
  /\ PreResetCond
  /\ power_cap > 0
  /\ power = <<power_cap>>

\* the output commodity of a batch the last handler found in the facility
PreOutCommod(id) == fuel_outcommods[pre.res_indexes[id] + 1]

\* the batches of one output commodity among q, in the order of q
OfCommod(q, c) == SelectSeq(q, LAMBDA id : PreOutCommod(id) = c)

\* C12: a trade delivery with zero awarded trades (PopSpent, then PushSpent
\* of the identical groups) leaves spent with exactly the content and the
\* order it had before the call, also when batches of different output
\* commodities are interleaved.
C12_RoundTrip ==
  (called = "GetMatlTrades" /\ err = "" /\ Len(arg) = 0) =>
    spent = pre.spent

\* the batches handed out for the trades of commodity c, in trade order
DeliveredFor(c) ==
  LET idx == SelectSeq([i \in 1..Len(arg) |-> i], LAMBDA i : arg[i] = c)
  IN  [n \in 1..Len(idx) |-> responses[idx[n]]]

\* the k oldest batches of each commodity are delivered, oldest first, one per
\* trade, and exactly their tracker entries are erased
C13_Delivered ==
  (called = "GetMatlTrades" /\ err = "" /\ Len(arg) > 0) =>
    /\ Len(responses) = Len(arg)
    /\ \A c \in OutCommods :
         DeliveredFor(c) = SubSeq(OfCommod(pre.spent, c), 1, NumOf(arg, c))
    /\ DOMAIN res_indexes =
         (DOMAIN pre.res_indexes) \ {responses[i] : i \in 1..Len(responses)}
    /\ \A id \in DOMAIN res_indexes : res_indexes[id] = pre.res_indexes[id]

\* the batches not delivered stay in spent, in the order they had
C13_LeftInOrder ==
  (called = "GetMatlTrades" /\ err = "" /\ Len(arg) > 0) =>
    spent = SelectSeq(pre.spent,
              LAMBDA id : id \notin {responses[i] : i \in 1..Len(responses)})

\* C13: a trade delivery with k >= 1 awarded trades for an output commodity
\* (k at most the spent batches of that commodity) delivers the k oldest spent
\* batches of that commodity, oldest first, one per trade; exactly those leave
\* spent and lose their tracker entries, and the batches not traded stay in
\* spent in their original relative order.
C13_DeliverOldest == C13_Delivered /\ C13_LeftInOrder

\* the batches a buffer holds
Ids(q) == {q[i] : i \in 1..Len(q)}

\* C14: between operations the batches that have a tracker entry are exactly
\* the batches held in core, fresh and spent; an entry appears only when
\* AcceptMatlTrades takes the batch in, keeps its path index for as long as
\* the batch is resident, and disappears exactly when GetMatlTrades hands the
\* batch out.
C14_TrackerMirrorsResidency ==
  /\ DOMAIN res_indexes = Ids(core) \cup Ids(fresh) \cup Ids(spent)
  /\ \A id \in (DOMAIN res_indexes) \cap (DOMAIN pre.res_indexes) :
       res_indexes[id] = pre.res_indexes[id]
  /\ (DOMAIN res_indexes) \ (DOMAIN pre.res_indexes) =
       IF called = "AcceptMatlTrades" /\ err = ""
       THEN pre.next_id..(next_id - 1) ELSE {}
  /\ (DOMAIN pre.res_indexes) \ (DOMAIN res_indexes) =
       IF called = "GetMatlTrades" THEN Ids(responses) ELSE {}

\* a delivery that erased the entry of the batch it handed out and kept the
\* entry, under the second fuel path, of a batch it pushed back
C14_Witness ==
  /\ called = "GetMatlTrades"
  /\ Len(responses) > 0
  /\ responses[1] \in DOMAIN pre.res_indexes
  /\ responses[1] \notin DOMAIN res_indexes
  /\ \E i \in 1..Len(spent) : res_indexes[spent[i]] = 1

\* the total quantity of the batches q
RECURSIVE QtySum(_)
QtySum(q) == IF Len(q) = 0 THEN 0 ELSE mats[Head(q)].qty + QtySum(Tail(q))

\* the bid portfolios the last GetMatlBids built for commodity c
PortsFor(c) == {k \in 1..Len(bidports) : bidports[k].commod = c}

\* C15: whatever the fuel paths (several may share an output commodity),
\* GetMatlBids builds exactly one bid portfolio for each output commodity that
\* has a pending request and a matching spent batch, and none for any other
\* commodity; the portfolio's capacity constraint is the total quantity of the
\* spent batches of that commodity, so no more than that is offered.
C15_OneGroupPerCommodity ==
  (called = "GetMatlBids" /\ err = "") =>
    \A c \in Commods :
      IF /\ c \in OutCommods
         /\ Len(arg[c]) > 0
         /\ Len(OfCommod(pre.spent, c)) > 0
      THEN /\ Cardinality(PortsFor(c)) = 1
           /\ \A k \in PortsFor(c) :
                bidports[k].cap = QtySum(OfCommod(pre.spent, c))
      ELSE PortsFor(c) = {}

\* how many of the batches q, from the first, it takes to reach the quantity
\* target: the least such number, or all of q when they do not reach it
PrefixLen(q, target) ==
  LET reach == {n \in 1..Len(q) : QtySum(SubSeq(q, 1, n)) >= target}
  IN  IF reach = {} THEN Len(q)
      ELSE CHOOSE n \in reach : \A m \in reach : n <= m

\* the batches a portfolio's bids offer to its request j, in bid order
OfferedTo(p, j) ==
  LET own == SelectSeq(p.bids, LAMBDA b : b.req = j)
  IN  [n \in 1..Len(own) |-> own[n].offer]

\* C16: in every bid portfolio the bids follow the requests in arrival order,
\* and each request is offered the shortest prefix of the spent batches of the
\* commodity, taken in offer order from the first batch again, whose
\* quantities add up to the requested quantity or more, or all of them when
\* they add up to less.
C16_GreedyPrefix ==
  (called = "GetMatlBids" /\ err = "") =>
    \A k \in 1..Len(bidports) :
      LET p == bidports[k]
          reqs == arg[p.commod]
          ms == OfCommod(pre.spent, p.commod)
      IN  /\ \A i \in 1..Len(p.bids) :
               /\ p.bids[i].req \in 1..Len(reqs)
               /\ i > 1 => p.bids[i - 1].req <= p.bids[i].req
          /\ \A j \in 1..Len(reqs) :
               OfferedTo(p, j) = SubSeq(ms, 1, PrefixLen(ms, reqs[j]))

\* a request for two batches followed by a request for one, both served from
\* the first of at least two spent batches
C16_Witness ==
  /\ called = "GetMatlBids"
  /\ \E k \in 1..Len(bidports) :
       /\ Len(OfCommod(pre.spent, bidports[k].commod)) >= 2
       /\ Len(OfferedTo(bidports[k], 1)) = 2
       /\ Len(OfferedTo(bidports[k], 2)) = 1
       /\ OfferedTo(bidports[k], 2)[1] = OfferedTo(bidports[k], 1)[1]

\* Scenario C: the last GetMatlBids found spent holding two batches A then B
\* of "out1", of one quantity, and was passed a single request for that
\* quantity of "out1"
ScenarioC ==
  /\ called = "GetMatlBids"
  /\ err = ""
  /\ "out1" \in OutCommods
  /\ Len(pre.spent) = 2
  /\ \A i \in 1..2 : PreOutCommod(pre.spent[i]) = "out1"
  /\ mats[pre.spent[1]].qty = mats[pre.spent[2]].qty
  /\ arg["out1"] = <<mats[pre.spent[1]].qty>>

\* C17 as stated: in Scenario C the bids offer B, the batch pushed last,
\* before A, so B is the batch offered for the request.
C17_NewestOfferedFirst ==
  ScenarioC =>
    /\ PortsFor("out1") # {}
    /\ \A k \in PortsFor("out1") : bidports[k].bids[1].offer = pre.spent[2]

\* C17 as amended: in Scenario C the bids offer A, the batch pushed first,
\* and only A: one bid, for the request, in every portfolio built for "out1".
C17_OldestOfferedFirst ==
  ScenarioC =>
    /\ PortsFor("out1") # {}
    /\ \A k \in PortsFor("out1") :
         bidports[k].bids =
           <<[req |-> 1, offer |-> pre.spent[1], exclusive |-> TRUE]>>

\* Scenario C with A accepted before B, the spent buffer left as it was
C17_Witness ==
  /\ ScenarioC
  /\ pre.spent[1] < pre.spent[2]
  /\ bidports # <<>>
  /\ spent = pre.spent

\* every override table is as long as its change-time table
TablesAgree ==
  /\ {Len(recipe_change_commods), Len(recipe_change_in),
      Len(recipe_change_out)} = {Len(recipe_change_times)}
  /\ {Len(pref_change_commods), Len(pref_change_values)} =
       {Len(pref_change_times)}

\* C18: when an override table and its change-time table differ in length,
\* EnterNotify fails with a ValueError and no other handler (no Tick, no Tock)
\* is ever called; when all lengths agree, EnterNotify succeeds.
C18_EntryCheck ==
  /\ ~TablesAgree =>
       /\ called \in {"", "EnterNotify"}
       /\ time = 0
       /\ called = "EnterNotify" => (err = "ValueError" /\ phase = "aborted")
  /\ (TablesAgree /\ called = "EnterNotify") => (err = "" /\ phase = "tick")

\* an entry refused for the last comparison only: pref_change_values shorter
\* than pref_change_times
C18_Witness ==
  /\ called = "EnterNotify"
  /\ err = "ValueError"
  /\ phase = "aborted"
  /\ Len(pref_change_commods) = Len(pref_change_times)
  /\ Len(pref_change_values) # Len(pref_change_times)

\* C19: a lookup (fuel_incommod, fuel_outcommod, fuel_inrecipe,
\* fuel_outrecipe) for a material that has no tracker entry, or whose entry
\* is an index outside the fuel-path tables, fails with a KeyError, returns
\* no path's value and adds no tracker entry.
C19_LookupFails ==
  (/\ called \in LookupNames
   /\ \/ arg \notin DOMAIN pre.res_indexes
      \/ pre.res_indexes[arg] \notin 0..(Len(fuel_incommods) - 1)) =>
    /\ err = "KeyError"
    /\ ret = ""
    /\ res_indexes = pre.res_indexes

\* C20: AcceptMatlTrades, handed r batches of configured commodities while
\* the core has f = n_assem_core - core.count() free slots, indexes every
\* batch under the first fuel path whose input commodity is the batch's,
\* appends the first min(r, f) batches to core and the others to fresh, and
\* records one LOAD event with the count min(r, f) if that is positive, none
\* otherwise.
C20_Accept ==
  (called = "AcceptMatlTrades" /\ err = "") =>
    LET r == Len(arg)
        f == n_assem_core - Len(pre.core)
        k == IF r < f THEN r ELSE f
        new == [i \in 1..r |-> pre.next_id + i - 1]
    IN  /\ next_id = pre.next_id + r
        /\ core = pre.core \o SubSeq(new, 1, k)
        /\ fresh = pre.fresh \o SubSeq(new, k + 1, r)
        /\ \A i \in 1..r :
             LET j == res_indexes[new[i]]
             IN  /\ fuel_incommods[j + 1] = arg[i]
                 /\ \A m \in 1..j : fuel_incommods[m] # arg[i]
        /\ events = IF k > 0
                    THEN <<[name |-> "LOAD",
                            val |-> <<ToStr(k), " assemblies">>]>>
                    ELSE <<>>

\* two batches accepted with one free core slot: one LOAD event for one
\* assembly, the second batch in fresh
C20_Witness ==
  /\ called = "AcceptMatlTrades"
  /\ Len(arg) = 2
  /\ Len(pre.core) = n_assem_core - 1
  /\ Len(fresh) = Len(pre.fresh) + 1
  /\ events = <<[name |-> "LOAD", val |-> <<"1", " assemblies">>]>>

\* how often a batch has been transmuted, now and when the last handler began
Transmutations(id) == IF id \in DOMAIN transmuted THEN transmuted[id] ELSE 0

PreTransmutations(id) ==
  IF id \in DOMAIN pre.transmuted THEN pre.transmuted[id] ELSE 0

\* C21: a Tick that runs Transmute (cycle_step = cycle_time) rewrites exactly
\* the n_assem_batch oldest core batches and keeps the membership and order
\* of core (the batches it then discharges, followed by the batches still in
\* core before those it loads, are the core it started from); nothing else
\* transmutes; and every batch in spent has been transmuted at least once.
C21_Transmute ==
  /\ \A i \in 1..Len(spent) : Transmutations(spent[i]) >= 1
  /\ (called = "Tick" /\ err = "" /\ pre.cycle_step = cycle_time) =>
       LET old == SubSeq(pre.core, 1, n_assem_batch)
           moved == SubSeq(spent, Len(pre.spent) + 1, Len(spent))
           nload == Len(pre.fresh) - Len(fresh)
           kept == SubSeq(core, 1, Len(core) - nload)
       IN  /\ Len(old) = n_assem_batch
           /\ \A id \in DOMAIN mats :
                Transmutations(id) =
                  PreTransmutations(id) + IF id \in Ids(old) THEN 1 ELSE 0
           /\ moved \o kept = pre.core
           /\ EventsNamed("TRANSMUTE") =
                <<[name |-> "TRANSMUTE",
                   val |-> <<ToStr(n_assem_batch), " assemblies">>]>>
  /\ (called # "Tick" \/ pre.cycle_step # cycle_time) =>
       transmuted = pre.transmuted

\* a cycle end that transmuted and discharged the older part of the core and
\* left a batch that was never transmuted in the core
C21_Witness ==
  /\ called = "Tick"
  /\ pre.cycle_step = cycle_time
  /\ n_assem_batch < n_assem_core
  /\ Len(spent) > Len(pre.spent)
  /\ Len(core) > 0
  /\ Transmutations(core[1]) = 0
  /\ Transmutations(spent[Len(spent)]) = 1

\* C22: with cycle_time >= 1 and 1 <= n_assem_batch <= n_assem_core, from
\* empty buffers, a Tick that finds cycle_step = cycle_time (and so runs
\* Transmute) finds the core full; no PopN of Transmute, Discharge or Load
\* asks for more than its buffer holds, so no Tick ever ends in an exception.
C22_TickNeverFails ==
  called = "Tick" =>
    /\ pre.cycle_step = cycle_time => Len(pre.core) = n_assem_core
    /\ err = ""
    /\ phase = "requests"

\* a second cycle end, found with a full core after the first one's discharge
\* had emptied it
C22_Witness ==
  /\ called = "Tick"
  /\ pre.cycle_step = cycle_time
  /\ n_assem_batch = n_assem_core
  /\ Len(pre.core) = n_assem_core
  /\ Len(pre.spent) > 0
  /\ HasEvent("TRANSMUTE")

\* C23: the CYCLE_START and CYCLE_END rows alternate strictly, beginning with
\* CYCLE_START: between two consecutive CYCLE_START rows there is exactly one
\* TRANSMUTE and one CYCLE_END row, and no CYCLE_END row before the first
\* CYCLE_START. (The rows since the last CYCLE_START are none, it alone, or
\* it with one TRANSMUTE and one CYCLE_END; and a CYCLE_START is recorded,
\* once, only when the rows before it are none or a complete cycle.)
C23_StartEndAlternate ==
  /\ cycle_log \in {<<>>, <<"CYCLE_START">>,
                    <<"CYCLE_START", "TRANSMUTE", "CYCLE_END">>}
  /\ HasEvent("CYCLE_START") =>
       /\ Len(EventsNamed("CYCLE_START")) = 1
       /\ pre.cycle_log \in {<<>>,
                             <<"CYCLE_START", "TRANSMUTE", "CYCLE_END">>}

\* the CYCLE_START that follows a complete cycle
C23_Witness ==
  /\ called = "Tock"
  /\ HasEvent("CYCLE_START")
  /\ pre.cycle_log = <<"CYCLE_START", "TRANSMUTE", "CYCLE_END">>
  /\ cycle_log = <<"CYCLE_START">>

\* C24: GetMatlBids, whatever the pending requests, leaves spent with the
\* content and order it had (PeekSpent pops all spent batches and pushes them
\* back), and leaves core, fresh, the tracker and the cycle state as they
\* were.
C24_BidsFrame ==
  called = "GetMatlBids" =>
    /\ err = ""
    /\ spent = pre.spent
    /\ core = pre.core
    /\ fresh = pre.fresh
    /\ res_indexes = pre.res_indexes
    /\ cycle_step = pre.cycle_step
    /\ discharged = pre.discharged

\* bids made on requests for two output commodities, from a spent buffer that
\* holds a batch of the second commodity before a batch of the first
C24_Witness ==
  /\ called = "GetMatlBids"
  /\ Len(bidports) = 2
  /\ bidports[1].commod # bidports[2].commod
  /\ Len(spent) >= 2
  /\ res_indexes[spent[1]] = 1
  /\ res_indexes[spent[2]] = 0

\* ------------------------------------------------------------------ C25
\* the Tock that has just returned recorded a CYCLE_START
StartRecorded == called = "Tock" /\ HasEvent("CYCLE_START")

\* C25: when the exchange answers every request of a timestep again and
\* again, the facility records CYCLE_START infinitely often, and two
\* consecutive CYCLE_STARTs are at least cycle_time + refuel_time timesteps
\* apart.
C25_CyclesRecur ==
  /\ []<>StartRecorded
  /\ [](StartRecorded /\ pre.since_start >= 0 =>
          pre.since_start + 1 >= cycle_time + refuel_time)

\* a second CYCLE_START, recorded exactly cycle_time + refuel_time Tocks
\* after the one before it, on a reactor that waits for refuelling and has
\* discharged a batch
C25_Witness ==
  /\ StartRecorded
  /\ pre.since_start >= 0
  /\ pre.since_start + 1 = cycle_time + refuel_time
  /\ refuel_time > 0
  /\ Len(spent) > 0

====
